---- MODULE Spec2Model ----
(***************************************************************************)
(* A model of bot1.py: a Telegram bot (python-telegram-bot) over a SQLite  *)
(* catalog of films.  The state is the catalog (films, film_genres, the    *)
(* AUTOINCREMENT counter), and per user the state of each of the four      *)
(* ConversationHandlers, context.user_data (the Draft) and the inline      *)
(* buttons the bot has rendered.  One action per handler; an action is the *)
(* dispatch of one update by the Application plus the whole handler.       *)
(*                                                                         *)
(* Texts and callback data are sequences of one-character strings, so that *)
(* int(), str.split() and the f-strings are computed as Python computes    *)
(* them.  Every user talks to the bot in one private chat, so the          *)
(* conversation key (chat, user) is the user.                              *)
(***************************************************************************)
EXTENDS Integers, Sequences, FiniteSets, TLC

\* ------------------------------------------------------------------ bounds

\* The largest film_id the model lets AUTOINCREMENT hand out.
MaxFilmId == 2

\* The flows (/add, /search, /delete, /update) the users start in one run.
MaxFlows == 2

\* Genre buttons genre_1 .. genre_<MaxPressedGenre> are the ones users press.
MaxPressedGenre == 2

\* datetime.now().year
CurrentYear == 2026

\* ------------------------------------------------------- program constants

ADD_TITLE == 0
ADD_YEAR == 1
ADD_DURATION == 2
ADD_DESCRIPTION == 3
ADD_GENRES == 4
UPDATE_CHOICE == 5
UPDATE_FIELD == 6
UPDATE_VALUE == 7
DELETE_CONFIRM == 8
SEARCH_TYPE == 9
SEARCH_VALUE == 10

\* ConversationHandler.END: the conversation's key is dropped.
END == -1

\* len(default_genres): genre_id 1..8 after init_db.
NumGenres == 8

MinYear == 1888
MaxYearAhead == 5
MaxDuration == 1000

\* sqlite3.connect() leaves foreign-key enforcement at SQLite's default, off:
\* the program never runs PRAGMA foreign_keys = ON.
foreign_keys == FALSE

\* Python's None.
None == <<"None">>

\* ------------------------------------------------------------------- text

Digits == <<"0", "1", "2", "3", "4", "5", "6", "7", "8", "9">>

IsDigit(c) == \E d \in 0..9 : Digits[d + 1] = c

DigitVal(c) == CHOOSE d \in 0..9 : Digits[d + 1] = c

IsSpace(c) == c \in {" ", "\t", "\n"}

\* f"{n}" for an int n >= 0
RECURSIVE str(_)
str(n) == IF n < 10 THEN <<Digits[n + 1]>> ELSE str(n \div 10) \o <<Digits[(n % 10) + 1]>>

RECURSIVE lstrip(_)
lstrip(s) == IF s # <<>> /\ IsSpace(Head(s)) THEN lstrip(Tail(s)) ELSE s

RECURSIVE rstrip(_)
rstrip(s) == IF s # <<>> /\ IsSpace(s[Len(s)]) THEN rstrip(SubSeq(s, 1, Len(s) - 1)) ELSE s

strip(s) == rstrip(lstrip(s))

Unsigned(s) == IF s # <<>> /\ s[1] \in {"+", "-"} THEN Tail(s) ELSE s

\* Decimal digits, single underscores allowed between digits.
IsDecimal(d) ==
    /\ d # <<>>
    /\ \A i \in 1..Len(d) :
          \/ IsDigit(d[i])
          \/ /\ d[i] = "_"
             /\ i > 1
             /\ i < Len(d)
             /\ IsDigit(d[i - 1])
             /\ IsDigit(d[i + 1])

\* the value of the first n characters of the decimal d
RECURSIVE DecimalPrefix(_, _)
DecimalPrefix(d, n) ==
    IF n = 0 THEN 0
    ELSE IF d[n] = "_" THEN DecimalPrefix(d, n - 1)
    ELSE 10 * DecimalPrefix(d, n - 1) + DigitVal(d[n])

DecimalValue(d) == DecimalPrefix(d, Len(d))

\* int(s) raises ValueError
int_raises(s) == \E t \in {strip(s)} : ~IsDecimal(Unsigned(t))

\* int(s), where it does not raise (t is the stripped text)
int(s) ==
    CHOOSE v \in {IF t # <<>> /\ t[1] = "-"
                  THEN -DecimalValue(Unsigned(t))
                  ELSE DecimalValue(Unsigned(t)) : t \in {strip(s)}} : TRUE

\* s.split(sep) for a one-character sep
\* (t is the text s, and i the place of its first sep)
RECURSIVE split(_, _)
split(s, sep) ==
    CHOOSE parts \in UNION {
        IF \E k \in 1..Len(t) : t[k] = sep
        THEN {<<SubSeq(t, 1, i - 1)>> \o split(SubSeq(t, i + 1, Len(t)), sep) :
                 i \in {k \in 1..Len(t) : t[k] = sep /\ \A j \in 1..(k - 1) : t[j] # sep}}
        ELSE {<<t>>} : t \in {s}} : TRUE

\* string literals of the program
s_genre == <<"g", "e", "n", "r", "e">>
s_done == <<"d", "o", "n", "e">>
s_search == <<"s", "e", "a", "r", "c", "h">>
s_title == <<"t", "i", "t", "l", "e">>
s_year == <<"y", "e", "a", "r">>
s_duration == <<"d", "u", "r", "a", "t", "i", "o", "n">>
s_description == <<"d", "e", "s", "c", "r", "i", "p", "t", "i", "o", "n">>
s_release_year == <<"r", "e", "l", "e", "a", "s", "e", "_", "y", "e", "a", "r">>
s_duration_minutes == <<"d", "u", "r", "a", "t", "i", "o", "n", "_", "m", "i", "n", "u", "t", "e", "s">>
s_delete == <<"d", "e", "l", "e", "t", "e">>
s_yes == <<"y", "e", "s">>
s_no == <<"n", "o">>
s_update == <<"u", "p", "d", "a", "t", "e">>
s_add == <<"a", "d", "d">>
s_cancel == <<"c", "a", "n", "c", "e", "l">>
s_skip == <<"s", "k", "i", "p">>
s_start == <<"s", "t", "a", "r", "t">>
s_help == <<"h", "e", "l", "p">>
s_show == <<"s", "h", "o", "w">>
s_genres == <<"g", "e", "n", "r", "e", "s">>

us == <<"_">>

slash(name) == <<"/">> \o name

\* ----------------------------------------------------------------- inputs

Users == {"u1", "u2"}

\* The texts users send.  In reply to a prompt for a title or a description:
Titles == { <<"H", "e", "a", "t">>, <<"1", "8", "8", "8">> }

Descriptions == { <<"H", "e", "a", "t">>, <<"N", "o", "i", "r">> }

\* In reply to a prompt for a year, a duration or a film id: a text that is
\* no number, and numbers around the limits of the validations (" 2" has a
\* leading space, which int() strips).
Numbers ==
    { <<"H", "e", "a", "t">>,
      <<"0">>,
      <<"1">>,
      <<" ", "2">>,
      <<"1", "8", "8", "8">>,
      <<"2", "0", "3", "1">>,
      <<"2", "0", "3", "2">> }

CommandNames ==
    {s_start, s_help, s_show, s_genres, s_add, s_search, s_delete, s_update, s_cancel, s_skip}

Commands == {slash(c) : c \in CommandNames}

Message(t) == [kind |-> "message", data |-> t]

CallbackQuery(d) == [kind |-> "callback_query", data |-> d]

\* ------------------------------------------------------------------ state

VARIABLES
    films,        \* table films: film_id -> row
    film_genres,  \* table film_genres: set of <<film_id, genre_id>>
    seq,          \* sqlite_sequence of films: the largest film_id ever assigned
    conv,         \* conv[u][h]: state of ConversationHandler h for user u, END if none
    user_data,    \* context.user_data of each user: a dict
    rendered,     \* the inline keyboards the bot has sent each user
    last,         \* the update handled last: who, what, which callback, the outcome
    submitted,    \* history: the texts the Add flow of each user has accepted so far
    flows         \* history: the number of flows started so far

vars == <<films, film_genres, seq, conv, user_data, rendered, last, submitted, flows>>

db == <<films, film_genres, seq>>

\* ------------------------------------------------------------------- dict

EmptyDict == [k \in {} |-> None]

Put(d, k, v) == [x \in DOMAIN d \cup {k} |-> IF x = k THEN v ELSE d[x]]

Has(d, k) == k \in DOMAIN d

\* list.remove(x): drops the first occurrence
RemoveFirst(l, x) ==
    LET i == CHOOSE k \in 1..Len(l) : l[k] = x /\ \A j \in 1..(k - 1) : l[j] # x
    IN  SubSeq(l, 1, i - 1) \o SubSeq(l, i + 1, Len(l))

\* a membership test that never finds the genre: every press appends
In_never(x, l) == FALSE

In(x, l) == \E i \in 1..Len(l) : l[i] = x

\* ---------------------------------------------------------- Catalog Store

Genres == 1..NumGenres

Row(title, year, duration, description) ==
    [title |-> title, duration_minutes |-> duration, release_year |-> year,
     description |-> description]

\* the id of an INTEGER PRIMARY KEY without AUTOINCREMENT: one more than the
\* largest film_id in the table
add_film_id_rowid ==
    IF DOMAIN films = {} THEN 1
    ELSE 1 + CHOOSE m \in DOMAIN films : \A f \in DOMAIN films : f <= m

\* add_film: the id AUTOINCREMENT assigns, and the table after the INSERT
add_film_id == seq + 1

\* add_film with the year and the duration bound to each other's column
add_film_swapped(title, year, duration, description) ==
    [x \in DOMAIN films \cup {add_film_id} |->
        IF x = add_film_id THEN Row(title, duration, year, description) ELSE films[x]]

add_film(title, year, duration, description) ==
    [x \in DOMAIN films \cup {add_film_id} |->
        IF x = add_film_id THEN Row(title, year, duration, description) ELSE films[x]]

\* add_genre_to_film: INSERT OR IGNORE on the composite primary key
add_genre_to_film(fg, film_id, genre_id) == fg \cup {<<film_id, genre_id>>}

\* the loop of add_film_genres, linking the film inserted before this one
add_genres_to_film_previous(fg, film_id, selected) ==
    fg \cup {<<film_id - 1, selected[i]>> : i \in 1..Len(selected)}

\* the loop of add_film_genres over selected_genres
RECURSIVE add_genres_to_film(_, _, _)
add_genres_to_film(fg, film_id, selected) ==
    IF selected = <<>> THEN fg
    ELSE add_genres_to_film(add_genre_to_film(fg, film_id, Head(selected)), film_id, Tail(selected))

\* get_film_by_id returns a row ("if not film" is false)
film_exists(film_id) == film_id \in DOMAIN films

get_film_by_id(film_id) == IF film_exists(film_id) THEN films[film_id] ELSE None

\* the genre ids GROUP_CONCAT joins for a film
genres_of(film_id) == {g \in Genres : <<film_id, g>> \in film_genres}

\* update_film_field's allow-list without the description
allowed_fields_three == {s_title, s_release_year, s_duration_minutes}

allowed_fields == {s_title, s_release_year, s_duration_minutes, s_description}

\* update_film_field: the table after the UPDATE
SetColumn(row, field, value) ==
    IF field = s_title THEN [row EXCEPT !.title = value]
    ELSE IF field = s_release_year THEN [row EXCEPT !.release_year = value]
    ELSE IF field = s_duration_minutes THEN [row EXCEPT !.duration_minutes = value]
    ELSE [row EXCEPT !.description = value]

\* update_film_field whose UPDATE has no WHERE clause
update_film_field_all(film_id, field, value) ==
    IF field \notin allowed_fields \/ ~film_exists(film_id) THEN films
    ELSE [x \in DOMAIN films |-> SetColumn(films[x], field, value)]

update_film_field(film_id, field, value) ==
    IF field \notin allowed_fields \/ ~film_exists(film_id) THEN films
    ELSE [films EXCEPT ![film_id] = SetColumn(films[film_id], field, value)]

\* update_film_field's return value
update_film_field_ok(film_id, field) == field \in allowed_fields /\ film_exists(film_id)

\* delete_film whose DELETE has no WHERE clause
delete_film_films_all(film_id) == [x \in {} |-> None]

\* delete_film: the tables after the DELETE
delete_film_films(film_id) == [x \in DOMAIN films \ {film_id} |-> films[x]]

delete_film_links(film_id) ==
    IF foreign_keys /\ film_exists(film_id)
    THEN {l \in film_genres : l[1] # film_id}
    ELSE film_genres

\* --------------------------------------------------------------- dispatch

\* The ConversationHandlers, in the order main() adds them to the Application.
Handlers == <<"add", "search", "delete", "update">>

\* filters.COMMAND
IsCommand(upd) == upd.kind = "message" /\ upd.data # <<>> /\ upd.data[1] = "/"

\* The command of a message, as CommandHandler.check_update reads it: the
\* first word after the slash, up to an @; <<>> if the message is no command.
command(upd) == IF IsCommand(upd) THEN split(split(Tail(upd.data), " ")[1], "@")[1] ELSE <<>>

\* filters.TEXT & ~filters.COMMAND
TextNotCommand(upd) == upd.kind = "message" /\ ~IsCommand(upd)

\* CallbackQueryHandler(callback) with no pattern: any callback query
IsCallback(upd) == upd.kind = "callback_query"

\* the CommandHandlers added before the ConversationHandlers
simple_command(cmd) ==
    IF cmd = s_start THEN "start"
    ELSE IF cmd = s_help THEN "help_command"
    ELSE IF cmd = s_show THEN "show_films"
    ELSE IF cmd = s_genres THEN "show_genres"
    ELSE "none"

entry_points(h, cmd) ==
    IF h = "add" /\ cmd = s_add THEN "add_film_start"
    ELSE IF h = "search" /\ cmd = s_search THEN "search_films_start"
    ELSE IF h = "delete" /\ cmd = s_delete THEN "delete_film_start"
    ELSE IF h = "update" /\ cmd = s_update THEN "update_film_start"
    ELSE "none"

states(h, state, upd) ==
    IF h = "add" /\ state = ADD_TITLE /\ TextNotCommand(upd) THEN "add_film_title"
    ELSE IF h = "add" /\ state = ADD_YEAR /\ TextNotCommand(upd) THEN "add_film_year"
    ELSE IF h = "add" /\ state = ADD_DURATION /\ TextNotCommand(upd) THEN "add_film_duration"
    ELSE IF h = "add" /\ state = ADD_DESCRIPTION /\ TextNotCommand(upd) THEN "add_film_description"
    ELSE IF h = "add" /\ state = ADD_GENRES /\ IsCallback(upd) THEN "add_film_genres"
    ELSE IF h = "search" /\ state = SEARCH_TYPE /\ IsCallback(upd) THEN "search_type_selected"
    ELSE IF h = "search" /\ state = SEARCH_VALUE /\ TextNotCommand(upd) THEN "search_execute"
    ELSE IF h = "delete" /\ state = DELETE_CONFIRM /\ TextNotCommand(upd) THEN "delete_film_confirm"
    ELSE IF h = "delete" /\ state = DELETE_CONFIRM /\ IsCallback(upd) THEN "delete_film_execute"
    ELSE IF h = "update" /\ state = UPDATE_CHOICE /\ TextNotCommand(upd) THEN "update_film_choice"
    ELSE IF h = "update" /\ state = UPDATE_FIELD /\ IsCallback(upd) THEN "update_field_selected"
    ELSE IF h = "update" /\ state = UPDATE_VALUE /\ TextNotCommand(upd) THEN "update_execute"
    ELSE "none"

fallbacks(cmd) == IF cmd = s_cancel THEN "cancel" ELSE "none"

\* ConversationHandler.check_update for the conversation of user u: with no
\* conversation the entry points, else the state's handlers, then the fallbacks.
check_update(h, u, upd, cmd) ==
    IF conv[u][h] = END THEN entry_points(h, cmd)
    ELSE IF states(h, conv[u][h], upd) # "none" THEN states(h, conv[u][h], upd)
    ELSE fallbacks(cmd)

\* Application.process_update: all handlers are in one group, and the first
\* handler whose check_update accepts the update is the only one to handle it.
Dispatch(u, upd) ==
    LET cmd == command(upd) IN
    IF simple_command(cmd) # "none"
    THEN [conv |-> "none", callback |-> simple_command(cmd)]
    ELSE IF \E i \in 1..Len(Handlers) : check_update(Handlers[i], u, upd, cmd) # "none"
    THEN LET i == CHOOSE k \in 1..Len(Handlers) :
                      /\ check_update(Handlers[k], u, upd, cmd) # "none"
                      /\ \A j \in 1..(k - 1) : check_update(Handlers[j], u, upd, cmd) = "none"
         IN  [conv |-> Handlers[i], callback |-> check_update(Handlers[i], u, upd, cmd)]
    ELSE [conv |-> "none", callback |-> "none"]

Routed(u, upd, h, callback) == Dispatch(u, upd) = [conv |-> h, callback |-> callback]

\* ------------------------------------------------------------ the updates

\* The callback data of a button: the f-strings of the keyboards.
genre_button(genre_id) == s_genre \o us \o str(genre_id)
genre_done == s_genre \o us \o s_done
delete_yes(film_id) == s_delete \o us \o s_yes \o us \o str(film_id)
delete_no == s_delete \o us \o s_no

genre_keyboard == {genre_button(g) : g \in Genres} \cup {genre_done}
search_keyboard == {s_search \o us \o k : k \in {s_title, s_year, s_genre}}
delete_keyboard(film_id) == {delete_yes(film_id), delete_no}
update_keyboard == {s_update \o us \o f : f \in {s_title, s_year, s_duration, s_description}}

\* A keyboard the bot has sent: its kind and, for a delete keyboard, the film.
Keyboard(kind, film_id) == <<kind, film_id>>

buttons(keyboard) ==
    IF keyboard[1] = "genre" THEN genre_keyboard
    ELSE IF keyboard[1] = "search" THEN search_keyboard
    ELSE IF keyboard[1] = "update" THEN update_keyboard
    ELSE delete_keyboard(keyboard[2])

\* The buttons a user presses: any button of a keyboard the bot has sent the
\* user, in this flow or an earlier one (of the genre buttons, the first ones).
Pressable(u) ==
    UNION {buttons(k) : k \in rendered[u]}
        \ {genre_button(g) : g \in (MaxPressedGenre + 1)..NumGenres}

\* --------------------------------------------------------------- outcomes

Outcome(u, upd, callback, raised, reply, film_id) ==
    last' = [user |-> u, update |-> upd, callback |-> callback, raised |-> raised,
             reply |-> reply, film_id |-> film_id]

\* the handler raised: the ConversationHandler keeps the conversation's state
Raise(u, upd, callback, exception) ==
    /\ Outcome(u, upd, callback, exception, "none", 0)
    /\ UNCHANGED conv

\* a ConversationHandler that keys its conversations by the chat only
SetState_any_user(u, h, state) == conv' = [v \in Users |-> [conv[v] EXCEPT ![h] = state]]

SetState(u, h, state) == conv' = [conv EXCEPT ![u][h] = state]

Render(u, keyboard) == rendered' = [rendered EXCEPT ![u] = @ \cup {keyboard}]

Init ==
    /\ films = [x \in {} |-> None]
    /\ film_genres = {}
    /\ seq = 0
    /\ conv = [u \in Users |-> [h \in {"add", "search", "delete", "update"} |-> END]]
    /\ user_data = [u \in Users |-> EmptyDict]
    /\ rendered = [u \in Users |-> {}]
    /\ last = [user |-> "none", update |-> Message(<<>>), callback |-> "none",
               raised |-> "none", reply |-> "none", film_id |-> 0]
    /\ submitted = [u \in Users |-> <<>>]
    /\ flows = 0

\* ------------------------------------------------------- simple commands

start(u) ==
    \E t \in {slash(s_start)} :
        /\ Routed(u, Message(t), "none", "start")
        /\ Outcome(u, Message(t), "start", "none", "welcome", 0)
        /\ UNCHANGED <<db, conv, user_data, rendered, submitted, flows>>

help_command(u) ==
    \E t \in {slash(s_help)} :
        /\ Routed(u, Message(t), "none", "help_command")
        /\ Outcome(u, Message(t), "help_command", "none", "help", 0)
        /\ UNCHANGED <<db, conv, user_data, rendered, submitted, flows>>

show_films(u) ==
    \E t \in {slash(s_show)} :
        /\ Routed(u, Message(t), "none", "show_films")
        /\ Outcome(u, Message(t), "show_films", "none",
                   IF DOMAIN films = {} THEN "empty" ELSE "films", 0)
        /\ UNCHANGED <<db, conv, user_data, rendered, submitted, flows>>

show_genres(u) ==
    \E t \in {slash(s_genres)} :
        /\ Routed(u, Message(t), "none", "show_genres")
        /\ Outcome(u, Message(t), "show_genres", "none", "genres", 0)
        /\ UNCHANGED <<db, conv, user_data, rendered, submitted, flows>>

\* ------------------------------------------------------------------- Add

add_film_start(u, limit) ==
    /\ conv[u]["add"] = END
    /\ flows < limit
    /\ flows' = flows + 1
    /\ submitted' = [submitted EXCEPT ![u] = <<>>]
    /\ \E t \in {slash(s_add)} :
        /\ Routed(u, Message(t), "add", "add_film_start")
        /\ SetState(u, "add", ADD_TITLE)
        /\ Outcome(u, Message(t), "add_film_start", "none", "ask_title", 0)
        /\ UNCHANGED <<db, user_data, rendered>>

add_film_title(u) ==
    /\ UNCHANGED flows
    /\ conv[u]["add"] = ADD_TITLE
    /\ \E t \in Titles \cup Commands :
        /\ Routed(u, Message(t), "add", "add_film_title")
        /\ user_data' = [user_data EXCEPT ![u] = Put(@, "title", t)]
        /\ submitted' = [submitted EXCEPT ![u] = Append(@, t)]
        /\ SetState(u, "add", ADD_YEAR)
        /\ Outcome(u, Message(t), "add_film_title", "none", "ask_year", 0)
        /\ UNCHANGED <<db, rendered>>

year_valid(year) == ~(year < MinYear \/ year > CurrentYear + MaxYearAhead)

\* add_film_duration's validation with "<" for "<=": 0 minutes pass
duration_valid_zero(duration) == ~(duration < 0 \/ duration > MaxDuration)

duration_valid(duration) == ~(duration <= 0 \/ duration > MaxDuration)

add_film_year(u) ==
    /\ UNCHANGED flows
    /\ conv[u]["add"] = ADD_YEAR
    /\ \E t \in Numbers \cup Commands :
        /\ Routed(u, Message(t), "add", "add_film_year")
        /\ IF int_raises(t)
           THEN /\ Outcome(u, Message(t), "add_film_year", "none", "not_a_number", 0)
                /\ SetState(u, "add", ADD_YEAR)
                /\ UNCHANGED <<user_data, submitted>>
           ELSE IF ~year_valid(int(t))
           THEN /\ Outcome(u, Message(t), "add_film_year", "none", "bad_year", 0)
                /\ SetState(u, "add", ADD_YEAR)
                /\ UNCHANGED <<user_data, submitted>>
           ELSE /\ user_data' = [user_data EXCEPT ![u] = Put(@, "year", int(t))]
                /\ submitted' = [submitted EXCEPT ![u] = Append(@, t)]
                /\ SetState(u, "add", ADD_DURATION)
                /\ Outcome(u, Message(t), "add_film_year", "none", "ask_duration", 0)
        /\ UNCHANGED <<db, rendered>>

add_film_duration(u) ==
    /\ UNCHANGED flows
    /\ conv[u]["add"] = ADD_DURATION
    /\ \E t \in Numbers \cup Commands :
        /\ Routed(u, Message(t), "add", "add_film_duration")
        /\ IF int_raises(t)
           THEN /\ Outcome(u, Message(t), "add_film_duration", "none", "not_a_number", 0)
                /\ SetState(u, "add", ADD_DURATION)
                /\ UNCHANGED <<user_data, submitted>>
           ELSE IF ~duration_valid(int(t))
           THEN /\ Outcome(u, Message(t), "add_film_duration", "none", "bad_duration", 0)
                /\ SetState(u, "add", ADD_DURATION)
                /\ UNCHANGED <<user_data, submitted>>
           ELSE /\ user_data' = [user_data EXCEPT ![u] = Put(@, "duration", int(t))]
                /\ submitted' = [submitted EXCEPT ![u] = Append(@, t)]
                /\ SetState(u, "add", ADD_DESCRIPTION)
                /\ Outcome(u, Message(t), "add_film_duration", "none", "ask_description", 0)
        /\ UNCHANGED <<db, rendered>>

add_film_description(u) ==
    /\ UNCHANGED flows
    /\ conv[u]["add"] = ADD_DESCRIPTION
    /\ \E t \in Descriptions \cup Commands :
        /\ Routed(u, Message(t), "add", "add_film_description")
        /\ user_data' = [user_data EXCEPT ![u] =
               Put(Put(@, "description", IF t # slash(s_skip) THEN t ELSE None),
                   "selected_genres", <<>>)]
        /\ submitted' = [submitted EXCEPT ![u] = Append(@, t)]
        /\ Render(u, Keyboard("genre", 0))
        /\ SetState(u, "add", ADD_GENRES)
        /\ Outcome(u, Message(t), "add_film_description", "none", "ask_genres", 0)
        /\ UNCHANGED db

\* the branch of add_film_genres for "genre_done"
add_film_genres_done(u, upd) ==
    LET ud == user_data[u] IN
    IF ~(Has(ud, "title") /\ Has(ud, "year") /\ Has(ud, "duration"))
    THEN /\ Raise(u, upd, "add_film_genres", "KeyError")
         /\ UNCHANGED <<db, user_data, submitted>>
    ELSE /\ seq < MaxFilmId
         /\ films' = add_film(ud["title"], ud["year"], ud["duration"],
                              IF Has(ud, "description") THEN ud["description"] ELSE None)
         /\ seq' = add_film_id
         /\ IF ~Has(ud, "selected_genres")
            THEN /\ Raise(u, upd, "add_film_genres", "KeyError")
                 /\ UNCHANGED <<film_genres, user_data, submitted>>
            ELSE /\ film_genres' = add_genres_to_film(film_genres, add_film_id,
                                                      ud["selected_genres"])
                 /\ user_data' = [user_data EXCEPT ![u] = EmptyDict]
                 /\ submitted' = [submitted EXCEPT ![u] = <<>>]
                 /\ SetState(u, "add", END)
                 /\ Outcome(u, upd, "add_film_genres", "none", "added", add_film_id)

\* the branch of add_film_genres for a genre button
add_film_genres_toggle(u, upd) ==
    LET ud == user_data[u]
        parts == split(upd.data, "_")
    IN  IF Len(parts) < 2
        THEN /\ Raise(u, upd, "add_film_genres", "IndexError")
             /\ UNCHANGED <<db, user_data, submitted>>
        ELSE IF int_raises(parts[2])
        THEN /\ Raise(u, upd, "add_film_genres", "ValueError")
             /\ UNCHANGED <<db, user_data, submitted>>
        ELSE IF ~Has(ud, "selected_genres")
        THEN /\ Raise(u, upd, "add_film_genres", "KeyError")
             /\ UNCHANGED <<db, user_data, submitted>>
        ELSE /\ user_data' = [user_data EXCEPT ![u]["selected_genres"] =
                    IF In(int(parts[2]), @) THEN RemoveFirst(@, int(parts[2]))
                    ELSE Append(@, int(parts[2]))]
             /\ SetState(u, "add", ADD_GENRES)
             /\ Outcome(u, upd, "add_film_genres", "none", "selected", 0)
             /\ UNCHANGED <<db, submitted>>

add_film_genres(u) ==
    /\ UNCHANGED flows
    /\ conv[u]["add"] = ADD_GENRES
    /\ \E d \in Pressable(u) :
        /\ Routed(u, CallbackQuery(d), "add", "add_film_genres")
        /\ IF d = genre_done
           THEN add_film_genres_done(u, CallbackQuery(d))
           ELSE add_film_genres_toggle(u, CallbackQuery(d))
        /\ UNCHANGED rendered

\* ---------------------------------------------------------------- Search

\* The default genres of init_db, by genre_id.  A Cyrillic letter is one
\* character, written "#" and its transliteration ("#B" is the capital).
genre_name ==
    << <<"#B", "#o", "#e", "#v", "#i", "#k">>,
       <<"#D", "#r", "#a", "#m", "#a">>,
       <<"#K", "#o", "#m", "#e", "#d", "#i", "#ya">>,
       <<"#F", "#a", "#n", "#t", "#a", "#s", "#t", "#i", "#k", "#a">>,
       <<"#T", "#r", "#i", "#l", "#l", "#e", "#r">>,
       <<"#U", "#zh", "#a", "#s", "#y">>,
       <<"#M", "#e", "#l", "#o", "#d", "#r", "#a", "#m", "#a">>,
       <<"#D", "#e", "#t", "#e", "#k", "#t", "#i", "#v">> >>

Upper == <<"A", "B", "C", "D", "E", "F", "G", "H", "I", "J", "K", "L", "M",
           "N", "O", "P", "Q", "R", "S", "T", "U", "V", "W", "X", "Y", "Z">>

Lower == <<"a", "b", "c", "d", "e", "f", "g", "h", "i", "j", "k", "l", "m",
           "n", "o", "p", "q", "r", "s", "t", "u", "v", "w", "x", "y", "z">>

\* SQLite's LIKE folds the case of the ASCII letters only.
fold(c) == IF \E i \in 1..26 : Upper[i] = c THEN Lower[CHOOSE i \in 1..26 : Upper[i] = c] ELSE c

\* text LIKE pattern: % is any run of characters, _ is any one character
RECURSIVE like(_, _)
like(pattern, text) ==
    IF pattern = <<>> THEN text = <<>>
    ELSE IF Head(pattern) = "%"
    THEN like(Tail(pattern), text) \/ (text # <<>> /\ like(pattern, Tail(text)))
    ELSE IF text = <<>> THEN FALSE
    ELSE IF Head(pattern) = "_" THEN like(Tail(pattern), Tail(text))
    ELSE fold(Head(pattern)) = fold(Head(text)) /\ like(Tail(pattern), Tail(text))

\* search_films raises ValueError: int(value) in the 'year' branch
search_films_raises(search_type, value) == search_type = s_year /\ int_raises(value)

\* search_films: the film_ids of the rows the query returns; for a search_type
\* that is none of the three, no query runs and the cursor has no rows left.
search_films(search_type, value) ==
    IF search_type = s_title
    THEN {f \in DOMAIN films : like(<<"%">> \o value \o <<"%">>, films[f].title)}
    ELSE IF search_type = s_year
    THEN {f \in DOMAIN films : films[f].release_year = int(value)}
    ELSE IF search_type = s_genre
    THEN {f \in DOMAIN films :
            \E g \in Genres : /\ <<f, g>> \in film_genres
                              /\ like(<<"%">> \o value \o <<"%">>, genre_name[g])}
    ELSE {}

search_films_start(u, limit) ==
    /\ conv[u]["search"] = END
    /\ flows < limit
    /\ flows' = flows + 1
    /\ UNCHANGED submitted
    /\ \E t \in {slash(s_search)} :
        /\ Routed(u, Message(t), "search", "search_films_start")
        /\ Render(u, Keyboard("search", 0))
        /\ SetState(u, "search", SEARCH_TYPE)
        /\ Outcome(u, Message(t), "search_films_start", "none", "ask_search_type", 0)
        /\ UNCHANGED <<db, user_data>>

search_type_selected(u) ==
    /\ UNCHANGED <<flows, submitted>>
    /\ conv[u]["search"] = SEARCH_TYPE
    /\ \E d \in Pressable(u) :
        /\ Routed(u, CallbackQuery(d), "search", "search_type_selected")
        /\ IF Len(split(d, "_")) < 2
           THEN /\ Raise(u, CallbackQuery(d), "search_type_selected", "IndexError")
                /\ UNCHANGED user_data
           ELSE /\ user_data' = [user_data EXCEPT ![u] = Put(@, "search_type", split(d, "_")[2])]
                /\ SetState(u, "search", SEARCH_VALUE)
                /\ Outcome(u, CallbackQuery(d), "search_type_selected", "none",
                           "ask_search_value", 0)
        /\ UNCHANGED <<db, rendered>>

search_execute(u) ==
    /\ UNCHANGED <<flows, submitted>>
    /\ conv[u]["search"] = SEARCH_VALUE
    /\ \E t \in Titles \cup Numbers \cup Commands :
        /\ Routed(u, Message(t), "search", "search_execute")
        /\ IF ~Has(user_data[u], "search_type")
           THEN Raise(u, Message(t), "search_execute", "KeyError")
           ELSE IF search_films_raises(user_data[u]["search_type"], t)
           THEN Raise(u, Message(t), "search_execute", "ValueError")
           ELSE /\ SetState(u, "search", END)
                /\ Outcome(u, Message(t), "search_execute", "none",
                           IF search_films(user_data[u]["search_type"], t) = {}
                           THEN "not_found" ELSE "results", 0)
        /\ UNCHANGED <<db, user_data, rendered>>

\* ---------------------------------------------------------------- Delete

delete_film_start(u, limit) ==
    /\ conv[u]["delete"] = END
    /\ flows < limit
    /\ flows' = flows + 1
    /\ UNCHANGED submitted
    /\ \E t \in {slash(s_delete)} :
        /\ Routed(u, Message(t), "delete", "delete_film_start")
        /\ SetState(u, "delete", DELETE_CONFIRM)
        /\ Outcome(u, Message(t), "delete_film_start", "none", "ask_film_id", 0)
        /\ UNCHANGED <<db, user_data, rendered>>

\* On a film that exists the handler returns None: the state stays DELETE_CONFIRM.
delete_film_confirm(u) ==
    /\ UNCHANGED <<flows, submitted>>
    /\ conv[u]["delete"] = DELETE_CONFIRM
    /\ \E t \in Numbers \cup Commands :
        /\ Routed(u, Message(t), "delete", "delete_film_confirm")
        /\ IF int_raises(t)
           THEN /\ SetState(u, "delete", DELETE_CONFIRM)
                /\ Outcome(u, Message(t), "delete_film_confirm", "none", "not_a_number", 0)
                /\ UNCHANGED rendered
           ELSE IF ~film_exists(int(t))
           THEN /\ SetState(u, "delete", END)
                /\ Outcome(u, Message(t), "delete_film_confirm", "none", "not_found", 0)
                /\ UNCHANGED rendered
           ELSE /\ Render(u, Keyboard("delete", int(t)))
                /\ Outcome(u, Message(t), "delete_film_confirm", "none", "confirm", int(t))
                /\ UNCHANGED conv
        /\ UNCHANGED <<db, user_data>>

delete_film_execute(u) ==
    /\ UNCHANGED <<flows, submitted>>
    /\ conv[u]["delete"] = DELETE_CONFIRM
    /\ \E d \in Pressable(u) :
        /\ Routed(u, CallbackQuery(d), "delete", "delete_film_execute")
        /\ IF d = delete_no
           THEN /\ SetState(u, "delete", END)
                /\ Outcome(u, CallbackQuery(d), "delete_film_execute", "none",
                           "delete_cancelled", 0)
                /\ UNCHANGED db
           ELSE IF Len(split(d, "_")) < 3
           THEN /\ Raise(u, CallbackQuery(d), "delete_film_execute", "IndexError")
                /\ UNCHANGED db
           ELSE IF int_raises(split(d, "_")[3])
           THEN /\ Raise(u, CallbackQuery(d), "delete_film_execute", "ValueError")
                /\ UNCHANGED db
           ELSE /\ films' = delete_film_films(int(split(d, "_")[3]))
                /\ film_genres' = delete_film_links(int(split(d, "_")[3]))
                /\ SetState(u, "delete", END)
                /\ Outcome(u, CallbackQuery(d), "delete_film_execute", "none",
                           IF film_exists(int(split(d, "_")[3])) THEN "deleted"
                           ELSE "delete_failed", int(split(d, "_")[3]))
                /\ UNCHANGED seq
        /\ UNCHANGED <<user_data, rendered>>

\* ---------------------------------------------------------------- Update

update_film_start(u, limit) ==
    /\ conv[u]["update"] = END
    /\ flows < limit
    /\ flows' = flows + 1
    /\ UNCHANGED submitted
    /\ \E t \in {slash(s_update)} :
        /\ Routed(u, Message(t), "update", "update_film_start")
        /\ SetState(u, "update", UPDATE_CHOICE)
        /\ Outcome(u, Message(t), "update_film_start", "none", "ask_film_id", 0)
        /\ UNCHANGED <<db, user_data, rendered>>

update_film_choice(u) ==
    /\ UNCHANGED <<flows, submitted>>
    /\ conv[u]["update"] = UPDATE_CHOICE
    /\ \E t \in Numbers \cup Commands :
        /\ Routed(u, Message(t), "update", "update_film_choice")
        /\ IF int_raises(t)
           THEN /\ SetState(u, "update", UPDATE_CHOICE)
                /\ Outcome(u, Message(t), "update_film_choice", "none", "not_a_number", 0)
                /\ UNCHANGED <<user_data, rendered>>
           ELSE IF ~film_exists(int(t))
           THEN /\ SetState(u, "update", END)
                /\ Outcome(u, Message(t), "update_film_choice", "none", "not_found", 0)
                /\ UNCHANGED <<user_data, rendered>>
           ELSE /\ user_data' = [user_data EXCEPT ![u] = Put(@, "update_film_id", int(t))]
                /\ Render(u, Keyboard("update", 0))
                /\ SetState(u, "update", UPDATE_FIELD)
                /\ Outcome(u, Message(t), "update_film_choice", "none", "ask_field", int(t))
        /\ UNCHANGED db

\* update_field_selected's field_names with an entry for 'genre' as well
field_names_with_genre == {s_title, s_year, s_duration, s_description, s_genre}

\* update_field_selected's field_names keyed by the labels of the buttons:
\* no callback data is a key
field_names_by_label == {}

field_names == {s_title, s_year, s_duration, s_description}

\* user_data['update_field'] is assigned before field_names[field] is looked up
update_field_selected(u) ==
    /\ UNCHANGED <<flows, submitted>>
    /\ conv[u]["update"] = UPDATE_FIELD
    /\ \E d \in Pressable(u) :
        /\ Routed(u, CallbackQuery(d), "update", "update_field_selected")
        /\ IF Len(split(d, "_")) < 2
           THEN /\ Raise(u, CallbackQuery(d), "update_field_selected", "IndexError")
                /\ UNCHANGED user_data
           ELSE /\ user_data' = [user_data EXCEPT ![u] = Put(@, "update_field", split(d, "_")[2])]
                /\ IF split(d, "_")[2] \notin field_names
                   THEN Raise(u, CallbackQuery(d), "update_field_selected", "KeyError")
                   ELSE /\ SetState(u, "update", UPDATE_VALUE)
                        /\ Outcome(u, CallbackQuery(d), "update_field_selected", "none",
                                   "ask_value", 0)
        /\ UNCHANGED <<db, rendered>>

field_db_name(field) ==
    IF field = s_year THEN s_release_year
    ELSE IF field = s_duration THEN s_duration_minutes
    ELSE field

\* the validation of update_execute: the value to store, where it is accepted
update_value(field, text) == IF field \in {s_year, s_duration} THEN int(text) ELSE text

update_value_raises(field, text) == field \in {s_year, s_duration} /\ int_raises(text)

\* update_execute's validation without the lower limit of the year
update_value_valid_no_min(field, text) ==
    IF field = s_year
    THEN ~(int(text) > CurrentYear + MaxYearAhead)
    ELSE IF field = s_duration
    THEN ~(int(text) <= 0 \/ int(text) > MaxDuration)
    ELSE TRUE

update_value_valid(field, text) ==
    IF field = s_year
    THEN ~(int(text) < MinYear \/ int(text) > CurrentYear + MaxYearAhead)
    ELSE IF field = s_duration
    THEN ~(int(text) <= 0 \/ int(text) > MaxDuration)
    ELSE TRUE

\* What users send in reply to the prompt for the new value of the field.
Replies(u) ==
    IF ~Has(user_data[u], "update_field") THEN Titles
    ELSE IF user_data[u]["update_field"] = s_title THEN Titles
    ELSE IF user_data[u]["update_field"] = s_description THEN Descriptions
    ELSE Numbers

update_execute(u) ==
    /\ UNCHANGED <<flows, submitted>>
    /\ conv[u]["update"] = UPDATE_VALUE
    /\ \E t \in Replies(u) \cup Commands :
        LET ud == user_data[u] IN
        /\ Routed(u, Message(t), "update", "update_execute")
        /\ IF ~(Has(ud, "update_film_id") /\ Has(ud, "update_field"))
           THEN /\ Raise(u, Message(t), "update_execute", "KeyError")
                /\ UNCHANGED films
           ELSE IF update_value_raises(ud["update_field"], t)
           THEN /\ SetState(u, "update", UPDATE_VALUE)
                /\ Outcome(u, Message(t), "update_execute", "none", "not_a_number", 0)
                /\ UNCHANGED films
           ELSE IF ~update_value_valid(ud["update_field"], t)
           THEN /\ SetState(u, "update", UPDATE_VALUE)
                /\ Outcome(u, Message(t), "update_execute", "none", "bad_value", 0)
                /\ UNCHANGED films
           ELSE /\ films' = update_film_field(ud["update_film_id"],
                                              field_db_name(ud["update_field"]),
                                              update_value(ud["update_field"], t))
                /\ SetState(u, "update", END)
                /\ Outcome(u, Message(t), "update_execute", "none",
                           IF update_film_field_ok(ud["update_film_id"],
                                                   field_db_name(ud["update_field"]))
                           THEN "updated" ELSE "update_failed", ud["update_film_id"])
        /\ UNCHANGED <<film_genres, seq, user_data, rendered>>

\* ---------------------------------------------------------------- cancel

\* The fallback of the first ConversationHandler, in the Application's order,
\* that has a conversation with the user: it ends that conversation only.
cancel(u) ==
    /\ UNCHANGED flows
    /\ \E h \in {"add", "search", "delete", "update"} : conv[u][h] # END
    /\ \E t \in {slash(s_cancel)} :
        /\ Dispatch(u, Message(t)).callback = "cancel"
        /\ user_data' = [user_data EXCEPT ![u] = EmptyDict]
        /\ submitted' = [submitted EXCEPT ![u] =
               IF Dispatch(u, Message(t)).conv = "add" THEN <<>> ELSE @]
        /\ SetState(u, Dispatch(u, Message(t)).conv, END)
        /\ Outcome(u, Message(t), "cancel", "none", "cancelled", 0)
        /\ UNCHANGED <<db, rendered>>

\* ------------------------------------------------------------------ Next

\* An update no handler accepts is dropped by the Application and changes
\* nothing: a stuttering step.

\* The handlers of the four flows; limit bounds the flows started.
Flows(u, limit) ==
    \/ add_film_start(u, limit)
    \/ add_film_title(u)
    \/ add_film_year(u)
    \/ add_film_duration(u)
    \/ add_film_description(u)
    \/ add_film_genres(u)
    \/ search_films_start(u, limit)
    \/ search_type_selected(u)
    \/ search_execute(u)
    \/ delete_film_start(u, limit)
    \/ delete_film_confirm(u)
    \/ delete_film_execute(u)
    \/ update_film_start(u, limit)
    \/ update_film_choice(u)
    \/ update_field_selected(u)
    \/ update_execute(u)
    \/ cancel(u)

\* /start, /help, /show and /genres: they reply and change nothing else.
Simple(u) ==
    \/ start(u)
    \/ help_command(u)
    \/ show_films(u)
    \/ show_genres(u)

\* The users run the flows.
Next == \E u \in Users : Flows(u, MaxFlows)

Spec == Init /\ [][Next]_vars

\* films.db outlives the process: init_db creates the tables only if they do
\* not exist, so a run can start on the films an earlier run added.
StoredFilms ==
    <<Row(<<"H", "e", "a", "t">>, MinYear, 1, None),
      Row(<<"1", "8", "8", "8">>, CurrentYear + MaxYearAhead, MaxDuration, <<"N", "o", "i", "r">>)>>

StoredLinks == {<<1, 1>>, <<2, 1>>, <<2, 2>>}

InitStored ==
    /\ films = [x \in 1..Len(StoredFilms) |-> StoredFilms[x]]
    /\ film_genres = StoredLinks
    /\ seq = Len(StoredFilms)
    /\ conv = [u \in Users |-> [h \in {"add", "search", "delete", "update"} |-> END]]
    /\ user_data = [u \in Users |-> EmptyDict]
    /\ rendered = [u \in Users |-> {}]
    /\ last = [user |-> "none", update |-> Message(<<>>), callback |-> "none",
               raised |-> "none", reply |-> "none", film_id |-> 0]
    /\ submitted = [u \in Users |-> <<>>]
    /\ flows = 0

SpecStored == InitStored /\ [][Next]_vars

\* --------------------------------------------------- one flow at a time

\* Runs in which one user starts a flow only while no conversation of the
\* user is open, and keeps answering the prompts.

NoConversation(u) == \A h \in {"add", "search", "delete", "update"} : conv[u][h] = END

\* The Add flows that have not yet inserted their film: /add is sent only
\* while AUTOINCREMENT has an id within MaxFilmId left for each of them.
AddsOpen == Cardinality({v \in Users : conv[v]["add"] # END})

add_when_idle(u) ==
    /\ NoConversation(u)
    /\ seq + AddsOpen < MaxFilmId
    /\ add_film_start(u, MaxFlows)

search_when_idle(u) == NoConversation(u) /\ search_films_start(u, MaxFlows)

delete_when_idle(u) == NoConversation(u) /\ delete_film_start(u, MaxFlows)

update_when_idle(u) == NoConversation(u) /\ update_film_start(u, MaxFlows)

\* the handlers of the states of the four ConversationHandlers
Answer(u) ==
    \/ add_film_title(u)
    \/ add_film_year(u)
    \/ add_film_duration(u)
    \/ add_film_description(u)
    \/ add_film_genres(u)
    \/ search_type_selected(u)
    \/ search_execute(u)
    \/ delete_film_confirm(u)
    \/ delete_film_execute(u)
    \/ update_film_choice(u)
    \/ update_field_selected(u)
    \/ update_execute(u)

\* an answer the state's handler accepts: the handler returns another state
Accepted(u) == Answer(u) /\ conv'[u] # conv[u]

\* the user who runs the flows
LiveUsers == {"u1"}

NextLive ==
    \E u \in LiveUsers :
        \/ add_when_idle(u)
        \/ search_when_idle(u)
        \/ delete_when_idle(u)
        \/ update_when_idle(u)
        \/ Answer(u)
        \/ cancel(u)

\* A user in a flow keeps sending input, and among it input the state accepts.
KeepsAnswering == \A u \in LiveUsers : WF_vars(Accepted(u))

SpecLive == Init /\ [][NextLive]_vars /\ KeepsAnswering

\* ------------------------------------------- the Catalog Store, called directly

\* The methods of FilmsDatabase are called here with any arguments, and the
\* storage engine may fault in a call (sqlite3.Error from cursor.execute: a
\* locked database, a full disk).  A faulting statement changes no table.
\* The handlers above run on an engine that does not fault.

film_id_column == <<"f", "i", "l", "m", "_", "i", "d">>

\* Field names callers pass to update_film_field.
FieldNames ==
    {s_title, s_release_year, s_duration_minutes, s_description, s_year, s_duration,
     film_id_column}

\* Values callers pass for a column: texts for the TEXT columns, integers for
\* the INTEGER columns.
ColumnValues(field) ==
    IF field \in {s_release_year, s_duration_minutes, s_year, s_duration, film_id_column}
    THEN {CurrentYear}
    ELSE {<<"N", "o", "i", "r">>}

\* Lower-case Cyrillic letters of a genre name, as a user types them.
boevik == <<"#b", "#o", "#e", "#v", "#i", "#k">>

\* Values callers pass to search_films.
SearchValues ==
    { <<"h", "e">>, <<"1", "8", "8", "8">>, <<"_">>, boevik }

Call(name, args) == [kind |-> name, data |-> args]

\* what a method returned or raised (the call of add_genre_to_film also
\* records whether the link existed)
Returned(name, args, result) ==
    last' = [user |-> "caller", update |-> Call(name, args), callback |-> name,
             raised |-> "none", reply |-> result, film_id |-> 0]

Propagated(name, args, exception) ==
    last' = [user |-> "caller", update |-> Call(name, args), callback |-> name,
             raised |-> exception, reply |-> "none", film_id |-> 0]

\* add_genre_to_film with a plain INSERT: the primary key rejects a link that
\* exists, and the method catches the IntegrityError
add_genre_to_film_insert(fg, film_id, genre_id, fault) ==
    ~fault /\ <<film_id, genre_id>> \notin fg

\* add_genre_to_film's return value: INSERT OR IGNORE does not fail on a
\* link that exists
add_genre_to_film_returns(fg, film_id, genre_id, fault) == ~fault

call_add_film ==
    /\ UNCHANGED <<conv, user_data, rendered, submitted, flows>>
    /\ \E title \in Titles, year \in {MinYear}, duration \in {1}, fault \in BOOLEAN :
           LET args == <<title, year, duration, None, fault>> IN
           IF fault
           THEN /\ Returned("add_film", args, None)
                /\ UNCHANGED db
           ELSE /\ seq < MaxFilmId
                /\ films' = add_film(title, year, duration, None)
                /\ seq' = add_film_id
                /\ Returned("add_film", args, add_film_id)
                /\ UNCHANGED film_genres

call_add_genre_to_film ==
    /\ UNCHANGED <<conv, user_data, rendered, submitted, flows>>
    /\ \E film_id \in 1..MaxFilmId, genre_id \in {1}, fault \in BOOLEAN :
           /\ film_genres' = IF fault THEN film_genres
                             ELSE add_genre_to_film(film_genres, film_id, genre_id)
           /\ Returned("add_genre_to_film",
                       <<film_id, genre_id, fault, <<film_id, genre_id>> \in film_genres>>,
                       add_genre_to_film_returns(film_genres, film_id, genre_id, fault))
           /\ UNCHANGED <<films, seq>>

call_get_all_films ==
    /\ UNCHANGED <<conv, user_data, rendered, submitted, flows>>
    /\ \E fault \in BOOLEAN :
           /\ IF fault
              THEN Propagated("get_all_films", <<fault>>, "sqlite3.Error")
              ELSE Returned("get_all_films", <<fault>>, DOMAIN films)
           /\ UNCHANGED db

call_get_film_by_id ==
    /\ UNCHANGED <<conv, user_data, rendered, submitted, flows>>
    /\ \E film_id \in 1..MaxFilmId, fault \in BOOLEAN :
           /\ IF fault
              THEN Propagated("get_film_by_id", <<film_id, fault>>, "sqlite3.Error")
              ELSE Returned("get_film_by_id", <<film_id, fault>>, get_film_by_id(film_id))
           /\ UNCHANGED db

call_search_films ==
    /\ UNCHANGED <<conv, user_data, rendered, submitted, flows>>
    /\ \E search_type \in {s_title, s_year, s_genre}, value \in SearchValues, fault \in BOOLEAN :
           LET args == <<search_type, value, fault>> IN
           /\ IF search_films_raises(search_type, value)
              THEN Propagated("search_films", args, "ValueError")
              ELSE IF fault
              THEN Propagated("search_films", args, "sqlite3.Error")
              ELSE Returned("search_films", args, search_films(search_type, value))
           /\ UNCHANGED db

call_update_film_field ==
    /\ UNCHANGED <<conv, user_data, rendered, submitted, flows>>
    /\ \E film_id \in 1..MaxFilmId, field \in FieldNames, fault \in BOOLEAN :
           \E value \in ColumnValues(field) :
               LET args == <<film_id, field, value, fault>> IN
               /\ IF fault /\ field \in allowed_fields
                  THEN /\ Returned("update_film_field", args, FALSE)
                       /\ UNCHANGED films
                  ELSE /\ films' = update_film_field(film_id, field, value)
                       /\ Returned("update_film_field", args, update_film_field_ok(film_id, field))
               /\ UNCHANGED <<film_genres, seq>>

call_delete_film ==
    /\ UNCHANGED <<conv, user_data, rendered, submitted, flows>>
    /\ \E film_id \in 1..MaxFilmId, fault \in BOOLEAN :
           /\ IF fault
              THEN /\ Returned("delete_film", <<film_id, fault>>, FALSE)
                   /\ UNCHANGED <<films, film_genres>>
              ELSE /\ films' = delete_film_films(film_id)
                   /\ film_genres' = delete_film_links(film_id)
                   /\ Returned("delete_film", <<film_id, fault>>, film_exists(film_id))
           /\ UNCHANGED seq

NextStore ==
    \/ call_add_film
    \/ call_add_genre_to_film
    \/ call_get_all_films
    \/ call_get_film_by_id
    \/ call_search_films
    \/ call_update_film_field
    \/ call_delete_film

SpecStore == Init /\ [][NextStore]_vars

\* ================================================================ claims

GenresSelected(selected) == {selected[i] : i \in 1..Len(selected)}

ValidYears == MinYear..(CurrentYear + MaxYearAhead)

ValidDurations == 1..MaxDuration

ActiveFlows(u) == {h \in {"add", "search", "delete", "update"} : conv[u][h] # END}

\* C1: an Add flow that runs Title, Year, Duration, Description, genre
\* selection and done creates exactly one new film: the film with the reported
\* id has the title, the year, the duration and the description the user
\* submitted in the flow, its genre links are the genres selected when done
\* was pressed, and no other film or link changes.  Every year in
\* [1888, currentYear+5] is accepted at the Year state, every duration in
\* [1, 1000] at the Duration state, and done with them creates the film.
C1_AddCreatesTheSubmittedFilm ==
    [][\A u \in Users :
        /\ (last'.user = u /\ last'.callback = "add_film_year"
              /\ ~int_raises(last'.update.data) /\ int(last'.update.data) \in ValidYears)
           => last'.reply = "ask_duration"
        /\ (last'.user = u /\ last'.callback = "add_film_duration"
              /\ ~int_raises(last'.update.data) /\ int(last'.update.data) \in ValidDurations)
           => last'.reply = "ask_description"
        /\ (last'.user = u /\ last'.callback = "add_film_genres"
              /\ last'.update.data = genre_done /\ Len(submitted[u]) = 4)
           => last'.reply = "added"
        /\ (last'.user = u /\ last'.reply = "added")
           => LET id == last'.film_id
                  sub == submitted[u]
              IN  /\ id \notin DOMAIN films
                  /\ DOMAIN films' = DOMAIN films \cup {id}
                  /\ \A f \in DOMAIN films : films'[f] = films[f]
                  /\ Len(sub) = 4
                  /\ films'[id].title = sub[1]
                  /\ films'[id].release_year = int(sub[2])
                  /\ films'[id].duration_minutes = int(sub[3])
                  /\ films'[id].description = sub[4]
                  /\ {g \in Genres : <<id, g>> \in film_genres'}
                        = GenresSelected(user_data[u]["selected_genres"])
                  /\ {l \in film_genres' : l[1] # id} = film_genres
      ]_vars

C1_Witness ==
    /\ last.reply = "added"
    /\ film_exists(last.film_id)
    /\ films[last.film_id].release_year = MinYear
    /\ Cardinality(genres_of(last.film_id)) = 2

\* C2: every film of the catalog has a release year in [1888, currentYear+5]
\* and a duration in [1, 1000], after any Add, Update and Delete flows.
C2_FilmsAreValid ==
    \A f \in DOMAIN films :
        /\ films[f].release_year \in ValidYears
        /\ films[f].duration_minutes \in ValidDurations

C2_Witness ==
    /\ last.callback = "update_execute"
    /\ last.reply = "updated"
    /\ user_data[last.user]["update_field"] = s_year
    /\ films[last.film_id].release_year = CurrentYear + MaxYearAhead

\* C3: after delete_film(id) succeeds, no film_genres row has film_id = id and
\* get_film_by_id(id) finds nothing.
C3_DeleteCascades ==
    (last.callback = "delete_film_execute" /\ last.reply = "deleted")
        => /\ ~film_exists(last.film_id)
           /\ genres_of(last.film_id) = {}

\* C4: every film_genres row refers to a film and a genre that exist.
C4_NoOrphanLinks ==
    \A l \in film_genres : l[1] \in DOMAIN films /\ l[2] \in Genres

\* C5: a user has at most one of the four flows active.
C5_OneActiveFlow == \A u \in Users : Cardinality(ActiveFlows(u)) <= 1

\* C6: after /cancel is processed for a user with a flow active, the user has
\* no active flow and an empty Draft.
C6_CancelLeavesIdle ==
    last.callback = "cancel"
        => ActiveFlows(last.user) = {} /\ user_data[last.user] = EmptyDict

\* C7: whenever a flow of a user ends, by completion or by cancellation, the
\* user's Draft is empty.
C7_DraftEmptyWhenFlowEnds ==
    [][\A u \in Users : \A h \in {"add", "search", "delete", "update"} :
          (conv[u][h] # END /\ conv'[u][h] = END) => user_data'[u] = EmptyDict]_vars

\* C8: no update makes a handler raise an exception.
C8_NoHandlerRaises == last.raised = "none"

\* C9: a film leaves the catalog only in the step in which the Delete flow,
\* waiting for the confirmation, handles the press of the 'yes' button of that
\* film, and that step removes no other film; a 'no' press handled by the
\* Delete flow leaves the catalog unchanged and ends the flow; no other event
\* removes a film.
C9_DeleteOnlyOnYes ==
    [][/\ \A f \in DOMAIN films :
            f \notin DOMAIN films'
                => /\ last'.callback = "delete_film_execute"
                   /\ last'.update = CallbackQuery(delete_yes(f))
                   /\ conv[last'.user]["delete"] = DELETE_CONFIRM
                   /\ DOMAIN films' = DOMAIN films \ {f}
       /\ (last'.callback = "delete_film_execute" /\ last'.update = CallbackQuery(delete_no))
            => /\ db' = db
               /\ conv[last'.user]["delete"] = DELETE_CONFIRM
               /\ conv'[last'.user]["delete"] = END
      ]_vars

C9_Witness ==
    /\ last.callback = "delete_film_execute"
    /\ last.update = CallbackQuery(delete_yes(1))
    /\ last.reply = "deleted"
    /\ ~film_exists(1)
    /\ film_exists(2)
    /\ conv[last.user]["delete"] = END

\* C10: a year outside [1888, currentYear+5], a duration outside [1, 1000] or
\* a text that is no integer, sent where the Add flow or the Update flow asks
\* for a year or a duration, is rejected: the flow stays in the same state and
\* the Draft and the catalog are unchanged.  The handler answers with the
\* rejection (in the Update flow: if the Draft still names the film).
C10_InvalidNumberRejected ==
    [][LET u == last'.user
           t == last'.update.data
           year_rejected == int_raises(t) \/ int(t) \notin ValidYears
           duration_rejected == int_raises(t) \/ int(t) \notin ValidDurations
           same == /\ conv' = conv
                   /\ user_data' = user_data
                   /\ db' = db
       IN  /\ (last'.callback = "add_film_year" /\ year_rejected)
              => /\ same
                 /\ conv[u]["add"] = ADD_YEAR
                 /\ last'.reply \in {"not_a_number", "bad_year"}
           /\ (last'.callback = "add_film_duration" /\ duration_rejected)
              => /\ same
                 /\ conv[u]["add"] = ADD_DURATION
                 /\ last'.reply \in {"not_a_number", "bad_duration"}
           /\ (/\ last'.callback = "update_execute"
               /\ Has(user_data[u], "update_field")
               /\ \/ user_data[u]["update_field"] = s_year /\ year_rejected
                  \/ user_data[u]["update_field"] = s_duration /\ duration_rejected)
              => /\ same
                 /\ conv[u]["update"] = UPDATE_VALUE
                 /\ Has(user_data[u], "update_film_id")
                        => last'.reply \in {"not_a_number", "bad_value"}
      ]_vars

C10_Witness ==
    /\ last.callback = "update_execute"
    /\ last.reply = "bad_value"
    /\ user_data[last.user]["update_field"] = s_duration
    /\ last.update.data = <<"0">>
    /\ conv[last.user]["update"] = UPDATE_VALUE

\* C11: update_film_field(film_id, field, value) on a working store updates
\* the film exactly when the film exists and field is the column of one of
\* the four fields title, year, duration, description (the columns title,
\* release_year, duration_minutes, description): then that column holds the
\* value and it returns True.  For any other field name it returns False and
\* no row changes.
FieldColumns == {field_db_name(f) : f \in field_names}

Column(row, column) ==
    IF column = s_title THEN row.title
    ELSE IF column = s_release_year THEN row.release_year
    ELSE IF column = s_duration_minutes THEN row.duration_minutes
    ELSE row.description

C11_UpdateFieldAllowList ==
    [][(last'.callback = "update_film_field" /\ ~last'.update.data[4])
        => LET film_id == last'.update.data[1]
               field == last'.update.data[2]
               value == last'.update.data[3]
               applied == field \in FieldColumns /\ film_id \in DOMAIN films
           IN  /\ last'.reply = applied
               /\ DOMAIN films' = DOMAIN films
               /\ \A f \in DOMAIN films :
                    \A c \in FieldColumns :
                        Column(films'[f], c) =
                            IF applied /\ f = film_id /\ c = field THEN value
                            ELSE Column(films[f], c)
               /\ field \notin FieldColumns => (last'.reply = FALSE /\ films' = films)
      ]_vars

C11_Witness ==
    /\ last.callback = "update_film_field"
    /\ ~last.update.data[4]
    /\ last.update.data[2] = film_id_column
    /\ film_exists(last.update.data[1])
    /\ last.reply = FALSE

\* C13: no Catalog Store operation lets a fault of the storage engine reach
\* its caller: it returns False, None or an empty result.
C13_FaultsAreCaught == last.raised # "sqlite3.Error"

\* C15: search_films returns all and only the matching films: by year the
\* films of that year; by title the films whose title contains the value,
\* ignoring letter case; by genre the films linked to a genre whose name
\* contains the value, ignoring letter case.
CapitalLetters == Upper \o <<"#B", "#D", "#K", "#F", "#T", "#U", "#M">>

SmallLetters == Lower \o <<"#b", "#d", "#k", "#f", "#t", "#u", "#m">>

lower(c) ==
    IF \E i \in 1..Len(CapitalLetters) : CapitalLetters[i] = c
    THEN SmallLetters[CHOOSE i \in 1..Len(CapitalLetters) : CapitalLetters[i] = c]
    ELSE c

LowerText(text) == [i \in 1..Len(text) |-> lower(text[i])]

Contains(text, value) ==
    \E i \in 1..(Len(text) - Len(value) + 1) :
        SubSeq(LowerText(text), i, i + Len(value) - 1) = LowerText(value)

Matching(search_type, value) ==
    IF search_type = s_title THEN {f \in DOMAIN films : Contains(films[f].title, value)}
    ELSE IF search_type = s_year THEN {f \in DOMAIN films : films[f].release_year = int(value)}
    ELSE {f \in DOMAIN films :
            \E g \in Genres : <<f, g>> \in film_genres /\ Contains(genre_name[g], value)}

C15_SearchReturnsTheMatches ==
    (last.callback = "search_films" /\ last.raised = "none")
        => last.reply = Matching(last.update.data[1], last.update.data[2])

\* C18: add_genre_to_film on a working store returns True and leaves exactly
\* the links there were plus the link (film_id, genre_id); called for a link
\* that exists it returns True and leaves film_genres unchanged, with as many
\* rows as before.
C18_LinkGenreIdempotent ==
    [][(last'.callback = "add_genre_to_film" /\ ~last'.update.data[3])
        => LET link == <<last'.update.data[1], last'.update.data[2]>>
           IN  /\ last'.reply = TRUE
               /\ film_genres' = film_genres \cup {link}
               /\ link \in film_genres
                    => /\ film_genres' = film_genres
                       /\ Cardinality(film_genres') = Cardinality(film_genres)
      ]_vars

C18_Witness ==
    /\ last.callback = "add_genre_to_film"
    /\ ~last.update.data[3]
    /\ last.update.data[4]
    /\ last.reply = TRUE
    /\ <<last.update.data[1], last.update.data[2]>> \in film_genres

\* C12: /skip sent while the Add flow waits for the description is handled by
\* add_film_description (which stores the empty description and moves on to
\* the genre selection).
C12_SkipAtDescription ==
    \A u \in Users :
        conv[u]["add"] = ADD_DESCRIPTION
            => Dispatch(u, Message(slash(s_skip))) =
                   [conv |-> "add", callback |-> "add_film_description"]

C16_NotFoundEndsTheFlow ==
    [][(last'.callback \in {"delete_film_confirm", "update_film_choice"}
          /\ ~int_raises(last'.update.data)
          /\ int(last'.update.data) \notin DOMAIN films)
        => /\ last'.reply = "not_found"
           /\ db' = db
           /\ \A h \in {"add", "search", "delete", "update"} : conv'[last'.user][h] = END
      ]_vars

\* C17 as stated: the events of another user change neither a user's flow
\* states and Draft nor what the user's next event leads to (two runs that
\* differ only in the other user's events give the user the same flow state
\* after every step): here, the outcome of the user's next identifier lookup.
lookup(u, t) ==
    IF /\ Dispatch(u, Message(t)).callback \in {"delete_film_confirm", "update_film_choice"}
       /\ ~int_raises(t)
    THEN IF film_exists(int(t)) THEN "found" ELSE "not_found"
    ELSE "none"

C17_OtherUsersEventsChangeNoOutcome ==
    [][\A u \in Users :
        last'.user # u
            => /\ conv'[u] = conv[u]
               /\ user_data'[u] = user_data[u]
               /\ \A t \in Numbers : lookup(u, t)' = lookup(u, t)
      ]_vars

\* C17, amended: the events of another user never change a user's flow states
\* or Draft; what the user's own event leads to depends on the user's flow
\* states and Draft, the event and the shared catalog.
C17_OtherUsersEventsLeaveFlowAndDraft ==
    [][\A u \in Users :
        last'.user # u => (conv'[u] = conv[u] /\ user_data'[u] = user_data[u])
      ]_vars

C17_Witness ==
    /\ last.user = "u2"
    /\ last.callback = "cancel"
    /\ conv["u1"]["add"] = ADD_YEAR
    /\ Has(user_data["u1"], "title")
    /\ user_data["u2"] = EmptyDict

\* C19: a 'yes' that arrives in a Delete flow in which no identifier has been
\* supplied yet (the flow has just been started) deletes nothing.
C19_YesBeforeIdentifierDeletesNothing ==
    [][(/\ last.callback = "delete_film_start"
        /\ last'.user = last.user
        /\ last'.callback = "delete_film_execute")
        => films' = films
      ]_vars

\* C20: the Add flow writes to the catalog only at 'done': its other events,
\* and /cancel, leave the three tables unchanged; at 'done' the links written
\* are links of the film created in that step.
C20_AddWritesOnlyAtDone ==
    [][/\ last'.callback \in {"add_film_start", "add_film_title", "add_film_year",
                              "add_film_duration", "add_film_description", "cancel"}
            => db' = db
       /\ (last'.callback = "add_film_genres" /\ last'.update.data # genre_done)
            => db' = db
       /\ (last'.callback = "add_film_genres" /\ last'.update.data = genre_done)
            => /\ films' = films => film_genres' = film_genres
               /\ \A l \in film_genres' \ film_genres :
                    /\ l[1] \notin DOMAIN films
                    /\ l[1] \in DOMAIN films'
                    /\ l[1] = seq'
      ]_vars

C20_Witness ==
    /\ last.callback = "cancel"
    /\ flows = 1
    /\ Keyboard("genre", 0) \in rendered[last.user]
    /\ conv[last.user]["add"] = END
    /\ films = [x \in {} |-> None]
    /\ film_genres = {}

\* C21: whenever update_execute calls update_film_field, the film id it passes
\* is the one update_film_choice found to exist earlier in the same Update
\* flow, and the field is one of title, year, duration, description, whatever
\* buttons were pressed while the flow waited for the field.  The Draft's id
\* of a flow that waits for the field or the value is written only by the
\* update_film_choice step of that flow, with an id of a film that exists.
OfferedFields == {s_title, s_year, s_duration, s_description}

WaitsForFieldOrValue(state) == state \in {UPDATE_FIELD, UPDATE_VALUE}

C21_UpdateTargetWasValidated ==
    [][\A u \in Users :
        /\ (/\ WaitsForFieldOrValue(conv'[u]["update"])
            /\ Has(user_data'[u], "update_film_id")
            /\ \/ ~WaitsForFieldOrValue(conv[u]["update"])
               \/ ~Has(user_data[u], "update_film_id")
               \/ user_data'[u]["update_film_id"] # user_data[u]["update_film_id"])
           => /\ last'.user = u
              /\ last'.callback = "update_film_choice"
              /\ conv[u]["update"] = UPDATE_CHOICE
              /\ ~int_raises(last'.update.data)
              /\ user_data'[u]["update_film_id"] = int(last'.update.data)
              /\ film_exists(int(last'.update.data))
        /\ (/\ last'.user = u
            /\ last'.callback = "update_execute"
            /\ last'.reply \in {"updated", "update_failed"})
           => /\ conv[u]["update"] = UPDATE_VALUE
              /\ Has(user_data[u], "update_film_id")
              /\ Has(user_data[u], "update_field")
              /\ last'.film_id = user_data[u]["update_film_id"]
              /\ user_data[u]["update_field"] \in OfferedFields
              /\ \A f \in DOMAIN films :
                    f # user_data[u]["update_film_id"] => films'[f] = films[f]
      ]_vars

\* an update applied in a flow whose user also holds the buttons of the
\* Search prompt
C21_Witness ==
    /\ last.callback = "update_execute"
    /\ last.reply = "updated"
    /\ Keyboard("search", 0) \in rendered[last.user]
    /\ Keyboard("update", 0) \in rendered[last.user]
    /\ user_data[last.user]["update_film_id"] = 2
    /\ user_data[last.user]["update_field"] = s_description
    /\ films[2].description = <<"H", "e", "a", "t">>

\* C22: in the genre selection of the Add flow a press of a genre button adds
\* the genre to the selection if it is absent and removes it if it is present,
\* the selection holds no genre twice, and the flow stays in the genre
\* selection: it leaves it only when the user presses done (or sends /cancel).
\* A second press of the same genre in a row therefore restores the genres
\* selected before the first.
GenreButtons == {genre_button(g) : g \in Genres}

C22_GenrePressToggles ==
    [][\A u \in Users :
        /\ (/\ last'.user = u
            /\ last'.callback = "add_film_genres"
            /\ last'.update.data \in GenreButtons)
           => /\ last'.raised = "none"
              /\ conv[u]["add"] = ADD_GENRES
              /\ conv'[u]["add"] = ADD_GENRES
              /\ db' = db
              /\ LET g == int(split(last'.update.data, "_")[2])
                     before == GenresSelected(user_data[u]["selected_genres"])
                     after == GenresSelected(user_data'[u]["selected_genres"])
                 IN  /\ after = IF g \in before THEN before \ {g} ELSE before \cup {g}
                     /\ Cardinality(after) = Len(user_data'[u]["selected_genres"])
        /\ (conv[u]["add"] = ADD_GENRES /\ conv'[u]["add"] # ADD_GENRES)
           => /\ last'.user = u
              /\ \/ last'.callback = "add_film_genres" /\ last'.update.data = genre_done
                 \/ last'.callback = "cancel"
      ]_vars

\* the press of genre 1 that removed it from a selection of genres 1 and 2
C22_Witness ==
    /\ last.callback = "add_film_genres"
    /\ last.update.data = genre_button(1)
    /\ last.reply = "selected"
    /\ conv[last.user]["add"] = ADD_GENRES
    /\ user_data[last.user]["selected_genres"] = <<2>>

\* C23: a flow a user starts while no other flow of the user is open ends, if
\* the user keeps sending input the current state accepts: no state of a flow
\* is a dead end that only /cancel leaves.  (A flow that is open always ends
\* later: at every time the flow is closed then or at a later time.)
C23_EveryFlowEnds ==
    \A u \in LiveUsers : \A h \in {"add", "search", "delete", "update"} :
        []<>(conv[u][h] = END)

\* a Delete flow, started after an Add flow had ended, ended on 'yes'
C23_Witness ==
    /\ flows = MaxFlows
    /\ last.callback = "delete_film_execute"
    /\ last.reply = "deleted"
    /\ \A u \in Users : ActiveFlows(u) = {}

\* C24: film ids are never reused.  The id add_film returns is larger than
\* every id assigned before (the AUTOINCREMENT counter, which no call
\* lowers), also after films were deleted, and the films of the table have
\* ids assigned before; so delete_film or update_film_field called with the
\* id of a film that was deleted changes no film.
C24_FilmIdsNeverReused ==
    [][/\ seq' >= seq
       /\ \A f \in DOMAIN films' : f \in 1..seq'
       /\ (last'.callback = "add_film" /\ ~last'.update.data[5])
            => /\ last'.reply > seq
               /\ seq' = last'.reply
               /\ DOMAIN films' = DOMAIN films \cup {last'.reply}
               /\ \A f \in DOMAIN films : films'[f] = films[f]
       /\ (/\ last'.callback \in {"delete_film", "update_film_field"}
           /\ last'.update.data[1] \in 1..seq
           /\ last'.update.data[1] \notin DOMAIN films)
            => films' = films
      ]_vars

\* add_film returned 2 after film 1 had been deleted
C24_Witness ==
    /\ last.callback = "add_film"
    /\ ~last.update.data[5]
    /\ seq = 2
    /\ DOMAIN films = {2}

====
